---- MODULE Spec2Model ----
(***************************************************************************)
(* Annotation worker (main.py): process_annotation_job and the functions   *)
(* it drives -- run_wildlive_detection, map_result_to_wlmo_annotation,     *)
(* build_wlmo_fragment_selector, publish_annotation_event and              *)
(* send_failed_message.  One job payload is delivered (at least once) to   *)
(* the workers of the fleet; each delivery is one invocation of            *)
(* process_annotation_job with its own local state.                        *)
(***************************************************************************)
EXTENDS Integers, Sequences, FiniteSets, TLC

(***************************************************************************)
(* Bounds of the model.                                                    *)
(***************************************************************************)
MaxDets == 2          \* longest detection list the service returns
MaxClock == 1         \* the wall clock runs from 0 to MaxClock

\* the two deliveries of the job payload (at-least-once delivery)
Workers == {"w1", "w2"}

(***************************************************************************)
(* JSON / Python values.  Every value carries its type tag, so that        *)
(* dict.get, int() and iteration can fail the way they do in Python.       *)
(***************************************************************************)
JNull == [tag |-> "null"]
JInt(n) == [tag |-> "int", n |-> n]
JStr(s) == [tag |-> "str", s |-> s]
JList(items) == [tag |-> "list", items |-> items]
JObj(f) == [tag |-> "obj", f |-> f]
EmptyDict == [k \in {} |-> JNull]

IsObj(v) == v.tag = "obj"
IsList(v) == v.tag = "list"

\* dict.get(key, default) on a value known to be a dict
Get(d, key, default) == IF key \in DOMAIN d.f THEN d.f[key] ELSE default

\* the result of a call: a returned value or a raised exception
Return(v) == [ok |-> TRUE, val |-> v]
Raise(msg) == [ok |-> FALSE, err |-> msg]

(***************************************************************************)
(* Text is a sequence of one-character strings, so that formatting is a    *)
(* computation a parser can be run against.                                *)
(***************************************************************************)
DigitChar(d) ==
    CASE d = 0 -> "0" [] d = 1 -> "1" [] d = 2 -> "2" [] d = 3 -> "3"
      [] d = 4 -> "4" [] d = 5 -> "5" [] d = 6 -> "6" [] d = 7 -> "7"
      [] d = 8 -> "8" [] d = 9 -> "9"

RECURSIVE NatToText(_)
NatToText(n) ==
    IF n < 10 THEN <<DigitChar(n)>>
    ELSE NatToText(n \div 10) \o <<DigitChar(n % 10)>>

\* f"{x}" for a Python int
IntToText(i) == IF i < 0 THEN <<"-">> \o NatToText(-i) ELSE NatToText(i)

(***************************************************************************)
(* Exception texts, as str(e) gives them.                                  *)
(***************************************************************************)
KeyErrorText(key) == "'" \o key \o "'"
NoneHasNoGet == "'NoneType' object has no attribute 'get'"
ListHasNoGet == "'list' object has no attribute 'get'"
NoneNotIterable == "'NoneType' object is not iterable"
IntOfNone ==
    "int() argument must be a string, a bytes-like object or a real number, not 'NoneType'"

(***************************************************************************)
(* Identity & timestamp provider.                                          *)
(***************************************************************************)
VARIABLES clock

\* the reading of the UTC wall clock (the text of the instant)
timestamp_now == clock

get_agent ==
    [id |-> "https://example.org/agent/annotation-service",
     name |-> "Annotation Service",
     type |-> "SoftwareAgent"]

(***************************************************************************)
(* Fragment selector builder.                                              *)
(***************************************************************************)
\* int(v)
PyInt(v) ==
    CASE v.tag = "int" -> Return(v.n)
      [] v.tag = "null" -> Raise(IntOfNone)

\* box.get(key, 0): the value looked up, 0 when the key is missing
BoxGetFlipped(box, key) == Get(box, key, JInt(1))
BoxGet(box, key) == Get(box, key, JInt(0))

\* f"xywh={x},{y},{w},{h}"
FormatXYWHSwapped(x, y, w, h) ==
    <<"x", "y", "w", "h", "=">> \o IntToText(x) \o <<",">> \o IntToText(y)
        \o <<",">> \o IntToText(h) \o <<",">> \o IntToText(w)
FormatXYWH(x, y, w, h) ==
    <<"x", "y", "w", "h", "=">> \o IntToText(x) \o <<",">> \o IntToText(y)
        \o <<",">> \o IntToText(w) \o <<",">> \o IntToText(h)

build_wlmo_fragment_selector(annotation) ==
    IF ~IsObj(annotation) THEN Raise(NoneHasNoGet)
    ELSE LET box == Get(annotation, "boundingBox", JObj(EmptyDict)) IN
      IF ~IsObj(box) THEN Raise(NoneHasNoGet)
      ELSE LET x == PyInt(BoxGet(box, "x"))
               y == PyInt(BoxGet(box, "y"))
               w == PyInt(BoxGet(box, "width"))
               h == PyInt(BoxGet(box, "height"))
           IN  IF ~x.ok THEN x
               ELSE IF ~y.ok THEN y
               ELSE IF ~w.ok THEN w
               ELSE IF ~h.ok THEN h
               ELSE Return([type |-> "wlmo:FragmentSelector",
                            value |-> FormatXYWH(x.val, y.val, w.val, h.val),
                            conformsTo |-> "http://www.w3.org/TR/media-frags/"])

(***************************************************************************)
(* Detection client.  reply is what the HTTP exchange with the detection   *)
(* service comes to: the call does not complete, times out, answers with   *)
(* a non-2xx status, answers with a body that is not JSON, or answers      *)
(* with a JSON body.                                                       *)
(***************************************************************************)
ReplyErrorText(reply) ==
    CASE reply.kind = "network" -> "HTTPSConnectionPool: Max retries exceeded"
      [] reply.kind = "timeout" -> "HTTPSConnectionPool: Read timed out. (read timeout=15)"
      [] reply.kind = "status" -> "500 Server Error: Internal Server Error"
      [] reply.kind = "unparsable" -> "Expecting value: line 1 column 1 (char 0)"

run_wildlive_detection_lenient(image_uri, reply) ==
    IF reply.kind # "json" \/ ~IsObj(reply.body)
    THEN Return([detections |-> JList(<<>>), height |-> JInt(-1), width |-> JInt(-1)])
    ELSE Return([detections |-> Get(reply.body, "output", JList(<<>>)),
                 height |-> Get(reply.body, "image_height", JInt(-1)),
                 width |-> Get(reply.body, "image_width", JInt(-1))])

run_wildlive_detection_strict(image_uri, reply) ==
    IF reply.kind # "json" THEN Raise(ReplyErrorText(reply))
    ELSE LET result == reply.body IN
      IF ~IsObj(result) THEN Raise(ListHasNoGet)
      ELSE IF "output" \notin DOMAIN result.f THEN Raise(KeyErrorText("output"))
      ELSE Return([detections |-> result.f["output"],
                   height |-> Get(result, "image_height", JInt(-1)),
                   width |-> Get(result, "image_width", JInt(-1))])

run_wildlive_detection(image_uri, reply) ==
    IF reply.kind # "json" THEN Raise(ReplyErrorText(reply))
    ELSE LET result == reply.body IN
      IF ~IsObj(result) THEN Raise(ListHasNoGet)
      ELSE Return([detections |-> Get(result, "output", JList(<<>>)),
                   height |-> Get(result, "image_height", JInt(-1)),
                   width |-> Get(result, "image_width", JInt(-1))])

(***************************************************************************)
(* State.                                                                  *)
(***************************************************************************)
VARIABLES
    job_data,        \* the job payload on the queue
    service,         \* what the detection service answers for this job's image
    pc,              \* per invocation: where process_annotation_job stands
    calls,           \* per invocation: the components invoked so far, in order
    access_uri,      \* per invocation: local access_uri
    detected,        \* per invocation: local (detections, height, width)
    annotations,     \* per invocation: local annotations
    published,       \* per invocation: events given to publish_annotation_event
    failed           \* per invocation: notices given to send_failed_message

vars == <<clock, job_data, service, pc, calls, access_uri, detected,
          annotations, published, failed>>

(***************************************************************************)
(* Annotation mapper.                                                      *)
(***************************************************************************)
\* annotations = []
SharedAnnotationList ==
    LET w1 == CHOOSE w \in Workers : TRUE
        w2 == CHOOSE w \in Workers : w # w1
    IN  IF annotations[w1] # <<>> THEN annotations[w1] ELSE annotations[w2]
NewAnnotationList == <<>>

\* annotations.append(annotation)
PrependAnnotation(list, annotation) == <<annotation>> \o list
AppendAnnotation(list, annotation) == Append(list, annotation)

\* the annotation built for one detection (the body of the loop)
AnnotationOf(digital_object, det, selector, timestamp, agent) ==
    [context |-> [wlmo |-> "https://w3id.org/wlmo#"],
     type |-> "wlmo:Annotation",
     creator |-> agent,
     created |-> timestamp,
     motivation |-> "classifying",
     target |-> [type |-> "wlmo:DigitalObject",
                 id |-> Get(digital_object, "id", JNull),
                 hasSelector |-> selector],
     hasBody |-> [type |-> "wlmo:TextualBody",
                  vernacularName |-> Get(det, "class", JNull),
                  confidenceScore |-> Get(det, "score", JNull)],
     generator |-> [id |-> "https://wildlive.senckenberg.de/wlmo/current/",
                    type |-> "wlmo:Software",
                    name |-> "WildLive Detection Service"]]

\* for det in organ_detections: ...
RECURSIVE MapLoop(_, _, _, _, _)
MapLoop(digital_object, dets, timestamp, agent, acc) ==
    IF dets = <<>> THEN Return(acc)
    ELSE LET det == Head(dets)
             selector == build_wlmo_fragment_selector(det)
         IN  IF ~selector.ok THEN selector
             ELSE MapLoop(digital_object, Tail(dets), timestamp, agent,
                          AppendAnnotation(acc,
                              AnnotationOf(digital_object, det, selector.val,
                                           timestamp, agent)))

map_result_to_wlmo_annotation(digital_object, organ_detections, image_height, image_width) ==
    LET timestamp == timestamp_now
        agent == get_agent
    IN  IF ~IsList(organ_detections) THEN Raise(NoneNotIterable)
        ELSE MapLoop(digital_object, organ_detections.items, timestamp, agent,
                     NewAnnotationList)

(***************************************************************************)
(* The payloads and service answers the model draws from.                  *)
(***************************************************************************)
\* a dict holding key with one of vals, or not holding key at all
Optional(key, vals) == {EmptyDict} \cup {key :> v : v \in vals}

FullBox ==
    JObj([x |-> JInt(30), y |-> JInt(50), width |-> JInt(100), height |-> JInt(120)])

Detections ==
    { JObj([class |-> JStr("Jaquar"), score |-> JStr("0.91"), boundingBox |-> FullBox]),
      JObj([class |-> JStr("Puma"), score |-> JStr("0.5"), boundingBox |-> JObj(EmptyDict)]),
      JObj([boundingBox |-> JObj([x |-> JInt(-5), width |-> JInt(7)])]),
      JObj([class |-> JStr("Jaquar")]),
      JObj([class |-> JStr("Puma"), boundingBox |-> JObj([x |-> JInt(3), y |-> JNull])]) }

DetectionLists == UNION {[1..n -> Detections] : n \in 0..MaxDets}

Bodies ==
    { JObj(o @@ h @@ w) :
        o \in Optional("output", {JNull} \cup {JList(l) : l \in DetectionLists}),
        h \in Optional("image_height", {JInt(1024)}),
        w \in Optional("image_width", {JInt(768)}) }

Replies ==
    {[kind |-> k] : k \in {"network", "timeout", "status", "unparsable"}}
        \cup {[kind |-> "json", body |-> b] : b \in Bodies \cup {JList(<<>>)}}

DigitalObjects ==
    { JNull,
      JObj([id |-> JStr("urn:example:1234"), type |-> JStr("DigitalMediaObject")]
               @@ ("ac:accessURI" :> JStr("https://example.org/test-image.jpg"))),
      JObj([id |-> JStr("urn:example:1234"), type |-> JStr("DigitalMediaObject")]),
      JObj([type |-> JStr("DigitalMediaObject")]
               @@ ("ac:accessURI" :> JStr("https://example.org/test-image.jpg"))) }

Jobs ==
    { JObj(j @@ o) : j \in Optional("jobId", {JStr("J1")}),
                     o \in Optional("object", DigitalObjects) }

NoResult == [detections |-> JNull, height |-> JNull, width |-> JNull]

Init ==
    /\ clock = 0
    /\ job_data \in Jobs
    /\ service \in Replies
    /\ pc = [w \in Workers |-> "queued"]
    /\ calls = [w \in Workers |-> <<>>]
    /\ access_uri = [w \in Workers |-> JNull]
    /\ detected = [w \in Workers |-> NoResult]
    /\ annotations = [w \in Workers |-> <<>>]
    /\ published = [w \in Workers |-> <<>>]
    /\ failed = [w \in Workers |-> <<>>]

(***************************************************************************)
(* Job orchestrator: process_annotation_job, one invocation per worker.    *)
(***************************************************************************)
\* job_data.get("jobId", "unknown")
FailedJobIdSentinel(job) == JStr("unknown")
FailedJobId(job) == Get(job, "jobId", JStr("unknown"))

\* except Exception as e: send_failed_message(job_data.get("jobId", "unknown"), str(e))
SwallowException(w, sofar, e) ==
    /\ calls' = [calls EXCEPT ![w] = sofar]
    /\ pc' = [pc EXCEPT ![w] = "done"]
    /\ UNCHANGED failed
HandleException(w, sofar, e) ==
    /\ failed' = [failed EXCEPT ![w] =
                     Append(@, [jobId |-> FailedJobId(job_data), error |-> e])]
    /\ calls' = [calls EXCEPT ![w] = Append(sofar, "send_failed_message")]
    /\ pc' = [pc EXCEPT ![w] = "done"]

\* mark_job_as_running; digital_object = job_data["object"];
\* access_uri = digital_object.get("ac:accessURI")
Receive(w) ==
    /\ pc[w] = "queued"
    /\ LET sofar == Append(calls[w], "mark_job_as_running") IN
       IF "object" \notin DOMAIN job_data.f
       THEN /\ HandleException(w, sofar, KeyErrorText("object"))
            /\ UNCHANGED access_uri
       ELSE LET digital_object == job_data.f["object"] IN
            IF ~IsObj(digital_object)
            THEN /\ HandleException(w, sofar, NoneHasNoGet)
                 /\ UNCHANGED access_uri
            ELSE /\ access_uri' = [access_uri EXCEPT ![w] =
                                      Get(digital_object, "ac:accessURI", JNull)]
                 /\ calls' = [calls EXCEPT ![w] = sofar]
                 /\ pc' = [pc EXCEPT ![w] = "detect"]
                 /\ UNCHANGED failed
    /\ UNCHANGED <<clock, job_data, service, detected, annotations, published>>

\* detections, height, width = run_wildlive_detection(access_uri)
DetectWithRetry(w) ==
    /\ pc[w] = "detect"
    /\ LET sofar == Append(calls[w], "run_wildlive_detection")
           r == run_wildlive_detection(access_uri[w], service)
       IN  IF r.ok
           THEN /\ detected' = [detected EXCEPT ![w] = r.val]
                /\ calls' = [calls EXCEPT ![w] = sofar]
                /\ pc' = [pc EXCEPT ![w] = "map"]
                /\ UNCHANGED failed
           ELSE IF Len(sofar) < 3
           THEN /\ calls' = [calls EXCEPT ![w] = sofar]
                /\ UNCHANGED <<pc, failed, detected>>
           ELSE /\ HandleException(w, sofar, r.err)
                /\ UNCHANGED detected
    /\ UNCHANGED <<clock, job_data, service, access_uri, annotations, published>>
Detect(w) ==
    /\ pc[w] = "detect"
    /\ LET sofar == Append(calls[w], "run_wildlive_detection")
           r == run_wildlive_detection(access_uri[w], service)
       IN  IF r.ok
           THEN /\ detected' = [detected EXCEPT ![w] = r.val]
                /\ calls' = [calls EXCEPT ![w] = sofar]
                /\ pc' = [pc EXCEPT ![w] = "map"]
                /\ UNCHANGED failed
           ELSE /\ HandleException(w, sofar, r.err)
                /\ UNCHANGED detected
    /\ UNCHANGED <<clock, job_data, service, access_uri, annotations, published>>

\* annotations = map_result_to_wlmo_annotation(digital_object, detections, height, width)
Map(w) ==
    /\ pc[w] = "map"
    /\ LET sofar == Append(calls[w], "map_result_to_wlmo_annotation")
           r == map_result_to_wlmo_annotation(job_data.f["object"],
                    detected[w].detections, detected[w].height, detected[w].width)
       IN  IF r.ok
           THEN /\ annotations' = [annotations EXCEPT ![w] = r.val]
                /\ calls' = [calls EXCEPT ![w] = sofar]
                /\ pc' = [pc EXCEPT ![w] = "publish"]
                /\ UNCHANGED failed
           ELSE /\ HandleException(w, sofar, r.err)
                /\ UNCHANGED annotations
    /\ UNCHANGED <<clock, job_data, service, access_uri, detected, published>>

\* event = {"annotations": annotations, "jobId": job_data["jobId"]}
\* publish_annotation_event(event)
PublishWithGet(w) ==
    /\ pc[w] = "publish"
    /\ published' = [published EXCEPT ![w] =
                        Append(@, [annotations |-> annotations[w],
                                   jobId |-> Get(job_data, "jobId", JNull)])]
    /\ calls' = [calls EXCEPT ![w] = Append(@, "publish_annotation_event")]
    /\ pc' = [pc EXCEPT ![w] = "done"]
    /\ UNCHANGED failed
    /\ UNCHANGED <<clock, job_data, service, access_uri, detected, annotations>>
Publish(w) ==
    /\ pc[w] = "publish"
    /\ IF "jobId" \notin DOMAIN job_data.f
       THEN /\ HandleException(w, calls[w], KeyErrorText("jobId"))
            /\ UNCHANGED published
       ELSE LET event == [annotations |-> annotations[w],
                          jobId |-> job_data.f["jobId"]]
            IN  /\ published' = [published EXCEPT ![w] = Append(@, event)]
                /\ calls' = [calls EXCEPT ![w] =
                                Append(@, "publish_annotation_event")]
                /\ pc' = [pc EXCEPT ![w] = "done"]
                /\ UNCHANGED failed
    /\ UNCHANGED <<clock, job_data, service, access_uri, detected, annotations>>

\* time passes
Tick ==
    /\ clock < MaxClock
    /\ clock' = clock + 1
    /\ UNCHANGED <<job_data, service, pc, calls, access_uri, detected,
                   annotations, published, failed>>

Next ==
    \/ Tick
    \/ \E w \in Workers : Receive(w)
    \/ \E w \in Workers : Detect(w)
    \/ \E w \in Workers : Map(w)
    \/ \E w \in Workers : Publish(w)

Spec == Init /\ [][Next]_vars

(***************************************************************************)
(* Vocabulary of the properties.                                           *)
(***************************************************************************)
Stages ==
    <<"mark_job_as_running", "run_wildlive_detection",
      "map_result_to_wlmo_annotation", "publish_annotation_event">>

Invoked(w, component) == \E i \in DOMAIN calls[w] : calls[w][i] = component
TimesInvoked(w, component) ==
    Cardinality({i \in DOMAIN calls[w] : calls[w][i] = component})

IsPrefix(s, t) == Len(s) <= Len(t) /\ s = SubSeq(t, 1, Len(s))

HasJobId == "jobId" \in DOMAIN job_data.f
HasObject == "object" \in DOMAIN job_data.f
ObjectIsDict == HasObject /\ IsObj(job_data.f["object"])
WellFormedObject ==
    /\ ObjectIsDict
    /\ {"id", "type", "ac:accessURI"} \subseteq DOMAIN job_data.f["object"].f

\* the service's answer, seen from outside the client
ServiceFails == service.kind # "json" \/ ~IsObj(service.body)
ResponseLacks(field) ==
    service.kind = "json" /\ IsObj(service.body) /\ field \notin DOMAIN service.body.f

Succeeded(w) == pc[w] = "done" /\ published[w] # <<>>
Failed(w) == pc[w] = "done" /\ failed[w] # <<>>

(***************************************************************************)
(* C1: every invocation of process_annotation_job ends having emitted      *)
(* exactly one outcome event -- one success event or one failure notice,   *)
(* never both -- whichever stage fails or succeeds; before it ends it has  *)
(* emitted none.                                                           *)
(***************************************************************************)
C1_ExactlyOneOutcome ==
    \A w \in Workers :
        /\ pc[w] = "done" => Len(published[w]) + Len(failed[w]) = 1
        /\ pc[w] # "done" => published[w] = <<>> /\ failed[w] = <<>>
        /\ ~(published[w] # <<>> /\ failed[w] # <<>>)

\* an invocation that failed in the mapper (int() of a null coordinate)
C1_Witness ==
    \E w \in Workers :
        /\ Failed(w)
        /\ Invoked(w, "map_result_to_wlmo_annotation")
        /\ ~Invoked(w, "publish_annotation_event")
        /\ failed[w][1].error = IntOfNone

(***************************************************************************)
(* C2: when the detection client returns a list of N detections, the       *)
(* mapper's result and the success event hold exactly N annotations, the   *)
(* i-th built from the i-th detection (class, score, bounding box).        *)
(***************************************************************************)
BuiltFrom(annotation, det) ==
    /\ annotation.hasBody.vernacularName = Get(det, "class", JNull)
    /\ annotation.hasBody.confidenceScore = Get(det, "score", JNull)
    /\ annotation.target.hasSelector = build_wlmo_fragment_selector(det).val

OneToOne(anns, dets) ==
    /\ Len(anns) = Len(dets)
    /\ \A i \in DOMAIN dets : BuiltFrom(anns[i], dets[i])

C2_OneAnnotationPerDetection ==
    \A w \in Workers :
        /\ pc[w] = "publish" =>
              /\ IsList(detected[w].detections)
              /\ OneToOne(annotations[w], detected[w].detections.items)
        /\ published[w] # <<>> =>
              /\ IsList(detected[w].detections)
              /\ Len(published[w]) = 1
              /\ OneToOne(published[w][1].annotations, detected[w].detections.items)

\* a success event of two annotations built from two different detections
C2_Witness ==
    \E w \in Workers :
        /\ Succeeded(w)
        /\ WellFormedObject
        /\ Len(published[w][1].annotations) = 2
        /\ detected[w].detections.items[1] # detected[w].detections.items[2]
        /\ published[w][1].annotations[1] # published[w][1].annotations[2]

(***************************************************************************)
(* C3: a job whose object has no access locator fails before any call to   *)
(* the detection client: at Terminal(Failure) the client's call count is   *)
(* 0.  (The code passes the missing locator on as None and calls.)         *)
(***************************************************************************)
LacksAccessURI == ObjectIsDict /\ "ac:accessURI" \notin DOMAIN job_data.f["object"].f

C3_NoDetectionCallWithoutLocator ==
    \A w \in Workers :
        (LacksAccessURI /\ Failed(w)) => TimesInvoked(w, "run_wildlive_detection") = 0

(***************************************************************************)
(* C4: when the detection client fails for a job with jobId J, exactly one *)
(* failure notice is emitted, with jobId J and the stringified cause as a  *)
(* non-empty error string; the mapper and the publisher are never invoked, *)
(* no success event is emitted, and the invocation ends normally.          *)
(***************************************************************************)
DetectionFailed(w) == Invoked(w, "run_wildlive_detection") /\ ServiceFails

CauseText ==
    IF service.kind = "json" THEN ListHasNoGet ELSE ReplyErrorText(service)

C4_DetectionFailureCaught ==
    \A w \in Workers :
        (HasJobId /\ DetectionFailed(w)) =>
            /\ pc[w] = "done"
            /\ Len(failed[w]) = 1
            /\ failed[w][1].jobId = job_data.f["jobId"]
            /\ failed[w][1].error = CauseText
            /\ failed[w][1].error # ""
            /\ published[w] = <<>>
            /\ ~Invoked(w, "map_result_to_wlmo_annotation")
            /\ ~Invoked(w, "publish_annotation_event")
            /\ calls[w][Len(calls[w])] = "send_failed_message"

\* a job J1 whose detection call timed out
C4_Witness ==
    \E w \in Workers :
        /\ HasJobId
        /\ service.kind = "timeout"
        /\ Invoked(w, "run_wildlive_detection")
        /\ Failed(w)
        /\ failed[w][1].jobId = JStr("J1")

(***************************************************************************)
(* C5: a response that parses but lacks output, image_height or            *)
(* image_width is no error: the client substitutes an empty list, -1 and   *)
(* -1; and a job whose response has no output field ends in                *)
(* Terminal(Success) with an empty annotations list, never in failure.     *)
(***************************************************************************)
Substituted(w) ==
    /\ ResponseLacks("output") => detected[w].detections = JList(<<>>)
    /\ ResponseLacks("image_height") => detected[w].height = JInt(-1)
    /\ ResponseLacks("image_width") => detected[w].width = JInt(-1)

\* the claim as stated: of every job whose response has no output field
C5_NoOutputAlwaysSucceeds ==
    \A w \in Workers :
        /\ (Invoked(w, "run_wildlive_detection") /\ ~ServiceFails) => Substituted(w)
        /\ (Invoked(w, "run_wildlive_detection") /\ ResponseLacks("output")
               /\ pc[w] = "done") =>
              /\ failed[w] = <<>>
              /\ Len(published[w]) = 1
              /\ published[w][1].annotations = <<>>

\* amended: of every such job that carries a jobId
C5_NoOutputSucceedsGivenJobId ==
    \A w \in Workers :
        /\ (Invoked(w, "run_wildlive_detection") /\ ~ServiceFails) =>
              /\ pc[w] \in {"map", "publish", "done"}
              /\ Substituted(w)
        /\ (Invoked(w, "run_wildlive_detection") /\ ResponseLacks("output")
               /\ pc[w] = "done") =>
              IF HasJobId
              THEN /\ failed[w] = <<>>
                   /\ published[w] =
                         <<[annotations |-> <<>>, jobId |-> job_data.f["jobId"]]>>
              ELSE /\ published[w] = <<>>
                   /\ Len(failed[w]) = 1
                   /\ failed[w][1].error = KeyErrorText("jobId")

\* a job J1 answered with {} : success with no annotations, dimensions -1
C5_Witness ==
    \E w \in Workers :
        /\ HasJobId
        /\ service.kind = "json" /\ service.body = JObj(EmptyDict)
        /\ Succeeded(w)
        /\ published[w][1].annotations = <<>>
        /\ detected[w] = [detections |-> JList(<<>>), height |-> JInt(-1), width |-> JInt(-1)]

(***************************************************************************)
(* C6: the selector value is "xywh=X,Y,W,H", X, Y, W, H the integer        *)
(* values of the bounding box's x, y, width and height, each 0 when the    *)
(* field (or the whole boundingBox) is missing, negative values unchanged. *)
(* The value is read back by a parser of the media-fragment syntax.        *)
(***************************************************************************)
CharDigit(c) ==
    CASE c = "0" -> 0 [] c = "1" -> 1 [] c = "2" -> 2 [] c = "3" -> 3
      [] c = "4" -> 4 [] c = "5" -> 5 [] c = "6" -> 6 [] c = "7" -> 7
      [] c = "8" -> 8 [] c = "9" -> 9

RECURSIVE TextToNat(_)
TextToNat(t) ==
    IF Len(t) = 1 THEN CharDigit(t[1])
    ELSE 10 * TextToNat(SubSeq(t, 1, Len(t) - 1)) + CharDigit(t[Len(t)])

TextToInt(t) == IF t[1] = "-" THEN 0 - TextToNat(Tail(t)) ELSE TextToNat(t)

RECURSIVE SplitComma(_)
SplitComma(t) ==
    IF \A i \in DOMAIN t : t[i] # ","
    THEN <<t>>
    ELSE LET i == CHOOSE k \in DOMAIN t :
                      t[k] = "," /\ \A m \in 1..(k - 1) : t[m] # ","
         IN  <<SubSeq(t, 1, i - 1)>> \o SplitComma(SubSeq(t, i + 1, Len(t)))

\* <<x, y, w, h>> of a well-formed "xywh=x,y,w,h", <<>> of anything else
ParseXYWH(t) ==
    IF Len(t) > 5 /\ SubSeq(t, 1, 5) = <<"x", "y", "w", "h", "=">>
    THEN LET parts == SplitComma(SubSeq(t, 6, Len(t))) IN
         IF Len(parts) = 4 /\ \A i \in 1..4 : parts[i] # <<>>
         THEN [i \in 1..4 |-> TextToInt(parts[i])]
         ELSE <<>>
    ELSE <<>>

\* the integer a detection's bounding box holds for a field, 0 when missing
BoxValue(det, field) ==
    IF "boundingBox" \notin DOMAIN det.f THEN 0
    ELSE IF field \notin DOMAIN det.f["boundingBox"].f THEN 0
    ELSE det.f["boundingBox"].f[field].n

Text_30_50_100_120 ==
    <<"x", "y", "w", "h", "=", "3", "0", ",", "5", "0", ",",
      "1", "0", "0", ",", "1", "2", "0">>
Text_0_0_0_0 == <<"x", "y", "w", "h", "=", "0", ",", "0", ",", "0", ",", "0">>
Text_m5_0_7_0 == <<"x", "y", "w", "h", "=", "-", "5", ",", "0", ",", "7", ",", "0">>

SelectorValueRight(annotation, det) ==
    LET value == annotation.target.hasSelector.value IN
      /\ ParseXYWH(value) = <<BoxValue(det, "x"), BoxValue(det, "y"),
                              BoxValue(det, "width"), BoxValue(det, "height")>>
      /\ Get(det, "boundingBox", JNull) = FullBox => value = Text_30_50_100_120
      /\ Get(det, "boundingBox", JNull) = JObj(EmptyDict) => value = Text_0_0_0_0
      /\ "boundingBox" \notin DOMAIN det.f => value = Text_0_0_0_0
      /\ BoxValue(det, "x") < 0 => value = Text_m5_0_7_0

C6_FragmentSelectorValue ==
    \A w \in Workers :
        \A i \in DOMAIN annotations[w] :
            SelectorValueRight(annotations[w][i], detected[w].detections.items[i])

\* a mapped job with the full box and one with a negative x and no y, height
C6_Witness ==
    \E w \in Workers :
        /\ Len(annotations[w]) = 2
        /\ annotations[w][1].target.hasSelector.value = Text_30_50_100_120
        /\ annotations[w][2].target.hasSelector.value = Text_m5_0_7_0

(***************************************************************************)
(* C7: the same payload processed twice with the same detection-service    *)
(* output, one invocation after the other or the two interleaved, gives    *)
(* two outcome events of the same kind, equal in every field but the       *)
(* creation timestamp; neither outcome depends on the other invocation.    *)
(***************************************************************************)
Untimed(event) ==
    [event EXCEPT !.annotations =
        [i \in DOMAIN @ |-> [@[i] EXCEPT !.created = 0]]]

UntimedAll(events) == [i \in DOMAIN events |-> Untimed(events[i])]

C7_RedeliveryIdempotent ==
    \A v, w \in Workers :
        (pc[v] = "done" /\ pc[w] = "done") =>
            /\ Len(published[v]) = Len(published[w])
            /\ Len(failed[v]) = Len(failed[w])
            /\ UntimedAll(published[v]) = UntimedAll(published[w])
            /\ failed[v] = failed[w]

\* two success events of the same job, stamped at different instants
C7_Witness ==
    \E v, w \in Workers :
        /\ v # w
        /\ Succeeded(v) /\ Succeeded(w)
        /\ Len(published[v][1].annotations) = 2
        /\ published[v][1].annotations[1].created
              # published[w][1].annotations[1].created
        /\ published[v] # published[w]

(***************************************************************************)
(* C8: a job with a jobId but no object field goes straight from Received  *)
(* to Terminal(Failure): the detection client, the mapper and the          *)
(* publisher are never invoked and the one failure notice carries the      *)
(* job's jobId.                                                            *)
(***************************************************************************)
C8_NoObjectFailsAtOnce ==
    \A w \in Workers :
        (HasJobId /\ ~HasObject /\ pc[w] # "queued") =>
            /\ pc[w] = "done"
            /\ calls[w] = <<"mark_job_as_running", "send_failed_message">>
            /\ published[w] = <<>>
            /\ failed[w] = <<[jobId |-> job_data.f["jobId"],
                              error |-> KeyErrorText("object")]>>

\* the payload {"jobId": "J1"}, processed
C8_Witness ==
    \E w \in Workers :
        /\ job_data = JObj([jobId |-> JStr("J1")])
        /\ Failed(w)

(***************************************************************************)
(* C9: within one invocation the stages run in the order mark-as-running,  *)
(* detection client, mapper, publisher, each at most once and never        *)
(* retried; the mapper only after the detection client returned, the       *)
(* publisher only after the mapper returned; a successful invocation has   *)
(* called the detection client once and the mapper once.                   *)
(***************************************************************************)
\* the stages invoked, the closing failure notice left out
StagesRun(w) ==
    IF calls[w] # <<>> /\ calls[w][Len(calls[w])] = "send_failed_message"
    THEN SubSeq(calls[w], 1, Len(calls[w]) - 1)
    ELSE calls[w]

MapperCanReturn(w) ==
    /\ IsList(detected[w].detections)
    /\ \A i \in DOMAIN detected[w].detections.items :
           build_wlmo_fragment_selector(detected[w].detections.items[i]).ok

C9_StagesInOrderOnce ==
    \A w \in Workers :
        /\ IsPrefix(StagesRun(w), Stages)
        /\ \A i \in DOMAIN Stages : TimesInvoked(w, Stages[i]) <= 1
        /\ Invoked(w, "map_result_to_wlmo_annotation") =>
              ~ServiceFails /\ detected[w] # NoResult
        /\ Invoked(w, "publish_annotation_event") => MapperCanReturn(w)
        /\ Succeeded(w) =>
              /\ calls[w] = Stages
              /\ TimesInvoked(w, "run_wildlive_detection") = 1
              /\ TimesInvoked(w, "map_result_to_wlmo_annotation") = 1

\* one invocation through all four stages, the other stopped in detection
C9_Witness ==
    \E v, w \in Workers :
        /\ Succeeded(v) /\ calls[v] = Stages
        /\ pc[w] = "map" /\ Len(calls[w]) = 2

(***************************************************************************)
(* C10: a job with a well-formed object but no jobId never yields a        *)
(* success event: detection client and mapper are both invoked, the        *)
(* failure is raised only when the success event is assembled, the         *)
(* publisher is not invoked, the failure notice carries "unknown".         *)
(***************************************************************************)
NoJobIdCase(w) == ~HasJobId /\ WellFormedObject /\ pc[w] = "done"

\* the claim as stated: of every such job
C10_NoJobIdFailsAtAssembly ==
    \A w \in Workers :
        NoJobIdCase(w) =>
            /\ published[w] = <<>>
            /\ Invoked(w, "run_wildlive_detection")
            /\ Invoked(w, "map_result_to_wlmo_annotation")
            /\ ~Invoked(w, "publish_annotation_event")
            /\ failed[w] = <<[jobId |-> JStr("unknown"),
                              error |-> KeyErrorText("jobId")]>>

\* amended: the mapper and the assembly are reached only when the stage
\* before returned; the job fails with "unknown" in every case
C10_NoJobIdNeverSucceeds ==
    \A w \in Workers :
        NoJobIdCase(w) =>
            /\ published[w] = <<>>
            /\ ~Invoked(w, "publish_annotation_event")
            /\ Invoked(w, "run_wildlive_detection")
            /\ Len(failed[w]) = 1
            /\ failed[w][1].jobId = JStr("unknown")
            /\ Invoked(w, "map_result_to_wlmo_annotation") <=> ~ServiceFails
            /\ (failed[w][1].error = KeyErrorText("jobId")) <=>
                  (~ServiceFails /\ MapperCanReturn(w))

\* such a job, detected and mapped, failing on the missing jobId
C10_Witness ==
    \E w \in Workers :
        /\ NoJobIdCase(w)
        /\ Len(annotations[w]) = 2
        /\ failed[w] = <<[jobId |-> JStr("unknown"), error |-> KeyErrorText("jobId")]>>

====
